---- MODULE Spec2Model ----
(***************************************************************************)
(* Model of src/cal/local.rs of the datetime crate: the epoch / cycle      *)
(* arithmetic, the YMD validator and the Date, Time and DateTime value     *)
(* types.  The initial state holds a call of the API with arguments drawn   *)
(* from bounded sets; the action of the function called records its result.*)
(***************************************************************************)
EXTENDS Integers, Naturals, Sequences, FiniteSets, TLC

VARIABLES pc, args, res

vars == <<pc, args, res>>

(***************************************************************************)
(* Bounds of the input sets.                                               *)
(***************************************************************************)
YearSpan == 17
DaySpan == 1500
MaxDay == 32
MaxYearday == 368
MaxWeek == 60
MaxHour == 25
AtDaySpan == 3
MaxPeriods == 40
MaxCycleLength == 12
ArithDaySpan == 1
MaxSteps == 2

(***************************************************************************)
(* Rust integer arithmetic: `/` and `%` truncate towards zero, `as i8`     *)
(* and `as i16` wrap.                                                      *)
(***************************************************************************)
Abs(x) == IF x < 0 THEN 0 - x ELSE x

RustDiv(a, b) ==
    IF (a >= 0) = (b > 0) THEN Abs(a) \div Abs(b) ELSE 0 - (Abs(a) \div Abs(b))

RustRem(a, b) == a - b * RustDiv(a, b)

AsI8(x) == ((x + 128) % 256) - 128

AsI16(x) == ((x + 32768) % 65536) - 32768

(***************************************************************************)
(* Result and Option values.                                               *)
(***************************************************************************)
Ok(v) == [ok |-> TRUE, val |-> v]

Err(e) == [ok |-> FALSE, err |-> e]

OutOfRange == "OutOfRange"

None == "None"

(***************************************************************************)
(* Collaborators from cal::units, util, instant and duration.              *)
(***************************************************************************)
Months ==
    << "January", "February", "March", "April", "May", "June", "July",
       "August", "September", "October", "November", "December" >>

MonthSet == { Months[i] : i \in 1..12 }

MonthNumber(m) == CHOOSE i \in 1..12 : Months[i] = m

Month_from_zero(i) == IF i \in 0..11 THEN Months[i + 1] ELSE None

Month_days_in_month(m, leap_year) ==
    CASE m = "February" -> (IF leap_year THEN 29 ELSE 28)
      [] m \in {"April", "June", "September", "November"} -> 30
      [] OTHER -> 31

Month_days_before_start(m) ==
    << 0, 31, 59, 90, 120, 151, 181, 212, 243, 273, 304, 334 >>[MonthNumber(m)]

Weekdays ==
    << "Sunday", "Monday", "Tuesday", "Wednesday", "Thursday", "Friday",
       "Saturday" >>

WeekdaySet == { Weekdays[i] : i \in 1..7 }

Weekday_from_zero(i) == IF i \in 0..6 THEN Weekdays[i + 1] ELSE None

Weekday_days_from_monday_as_one(w) ==
    LET i == CHOOSE k \in 1..7 : Weekdays[k] = w
    IN  IF i = 1 THEN 7 ELSE i - 1

is_within(x, lo, hi) == x >= lo /\ x < hi

Instant_at_ms(seconds, milliseconds) ==
    [seconds |-> seconds, milliseconds |-> milliseconds]

(***************************************************************************)
(* Constants of local.rs.                                                  *)
(***************************************************************************)
DAYS_IN_4Y == 365 * 4 + 1

DAYS_IN_100Y == 365 * 100 + 24

DAYS_IN_400Y == 365 * 400 + 97

SECONDS_IN_DAY == 86400

EPOCH_DIFFERENCE == 30 * 365 + 7 + 31 + 29

TIME_TRIANGLE ==
    << 31 + 30 + 31 + 30 + 31 + 31 + 30 + 31 + 30 + 31 + 31,
       31 + 30 + 31 + 30 + 31 + 31 + 30 + 31 + 30 + 31,
       31 + 30 + 31 + 30 + 31 + 31 + 30 + 31 + 30,
       31 + 30 + 31 + 30 + 31 + 31 + 30 + 31,
       31 + 30 + 31 + 30 + 31 + 31 + 30,
       31 + 30 + 31 + 30 + 31 + 31,
       31 + 30 + 31 + 30 + 31,
       31 + 30 + 31 + 30,
       31 + 30 + 31,
       31 + 30,
       31 >>

\* Duration::of(seconds), and Instant + Duration and Instant - Duration.
Duration_of(seconds) == [seconds |-> seconds]

Instant_add(instant, duration) ==
    Instant_at_ms(instant.seconds + duration.seconds, instant.milliseconds)

Instant_sub(instant, duration) ==
    Instant_at_ms(instant.seconds - duration.seconds, instant.milliseconds)

(***************************************************************************)
(* split_cycles: division with the remainder wrapped to be non-negative.   *)
(***************************************************************************)
\* The wrap of a negative remainder.
split_cycles_wrap(cycles, remainder, cycle_length) ==
    IF remainder < 0
    THEN << cycles - 1, remainder + cycle_length >>
    ELSE << cycles, remainder >>

\* Truncating division and remainder, without the wrap.
split_cycles_trunc(number_of_periods, cycle_length) ==
    << RustDiv(number_of_periods, cycle_length),
       RustRem(number_of_periods, cycle_length) >>

split_cycles(number_of_periods, cycle_length) ==
    split_cycles_wrap(RustDiv(number_of_periods, cycle_length),
                      RustRem(number_of_periods, cycle_length),
                      cycle_length)

(***************************************************************************)
(* Year (cal::units): leap days elapsed since 2000 and leap-year flag.     *)
(***************************************************************************)
\* The leap-year test and the count of leap years on the number of
\* 400-year cycles and the years left over since 2000.
Year_leap_years(num_400y_cycles, remainder) ==
    LET currently_leap_year ==
            remainder = 0
            \/ (RustRem(remainder, 100) # 0 /\ RustRem(remainder, 4) = 0)
        num_100y_cycles == RustDiv(remainder, 100)
    IN  << RustDiv(remainder - num_100y_cycles * 100, 4)
           + 97 * num_400y_cycles + 24 * num_100y_cycles
           - (IF currently_leap_year THEN 1 ELSE 0),
           currently_leap_year >>

Year_leap_year_calculations(y) ==
    Year_leap_years(split_cycles(y - 2000, 400)[1],
                    split_cycles(y - 2000, 400)[2])

Year_is_leap_year(y) == Year_leap_year_calculations(y)[2]

(***************************************************************************)
(* days_to_weekday                                                         *)
(***************************************************************************)
\* days_to_weekday_wrap without the `weekday + 7` of a negative remainder.
days_to_weekday_wrap_trunc(weekday) == Weekday_from_zero(AsI8(weekday))

\* Weekday::from_zero(if weekday < 0 { weekday + 7 } else { weekday } as i8)
days_to_weekday_wrap(weekday) ==
    Weekday_from_zero(AsI8(IF weekday < 0 THEN weekday + 7 ELSE weekday))

\* days_to_weekday without the 3 of Wednesday 1 March 2000.
days_to_weekday_unshifted(days) == days_to_weekday_wrap(RustRem(days, 7))

days_to_weekday(days) == days_to_weekday_wrap(RustRem(days + 3, 7))

(***************************************************************************)
(* YMD                                                                     *)
(***************************************************************************)
YMD(year, month, day) == [year |-> year, month |-> month, day |-> day]

\* YMD_is_valid with an off-by-one upper bound.
YMD_is_valid_strict(self, is_leap_year) ==
    self.day >= 1 /\ self.day < Month_days_in_month(self.month, is_leap_year)

YMD_is_valid(self, is_leap_year) ==
    self.day >= 1 /\ self.day <= Month_days_in_month(self.month, is_leap_year)

\* The body of to_days_since_epoch after leap_year_calculations.
YMD_days(self, leap_days_elapsed, is_leap_year) ==
    IF ~YMD_is_valid(self, is_leap_year)
    THEN Err(OutOfRange)
    ELSE Ok((self.year - 2000) * 365
            + 10958
            + leap_days_elapsed
            + Month_days_before_start(self.month)
            + (IF is_leap_year /\ MonthNumber(self.month) >= MonthNumber("March")
               THEN 1 ELSE 0)
            + (self.day - 1))

YMD_to_days_since_epoch(self) ==
    YMD_days(self,
             Year_leap_year_calculations(self.year)[1],
             Year_leap_year_calculations(self.year)[2])

\* #[derive(PartialOrd, Ord)]: lexicographic on (year, month, day).
YMD_cmp(a, b) ==
    CASE a.year < b.year -> "Less"
      [] a.year > b.year -> "Greater"
      [] MonthNumber(a.month) < MonthNumber(b.month) -> "Less"
      [] MonthNumber(a.month) > MonthNumber(b.month) -> "Greater"
      [] a.day < b.day -> "Less"
      [] a.day > b.day -> "Greater"
      [] OTHER -> "Equal"

\* #[derive(PartialEq)]: field by field.
YMD_eq(a, b) == a.year = b.year /\ a.month = b.month /\ a.day = b.day

(***************************************************************************)
(* Date                                                                    *)
(***************************************************************************)
\* TriangleFind with `<` for `<=`.
TriangleFind_strict(remainder) ==
    LET hits == { i \in 1..11 : TIME_TRIANGLE[i] < remainder }
    IN  IF hits = {} THEN [some |-> FALSE]
        ELSE LET i == CHOOSE k \in hits : \A j \in hits : k <= j
             IN  [some |-> TRUE, index |-> i - 1, days |-> TIME_TRIANGLE[i]]

\* TIME_TRIANGLE.iter().enumerate().find(|&(_, days)| *days <= remainder):
\* the first entry (index from zero) that is <= remainder, if any.
TriangleFind(remainder) ==
    LET hits == { i \in 1..11 : TIME_TRIANGLE[i] <= remainder }
    IN  IF hits = {} THEN [some |-> FALSE]
        ELSE LET i == CHOOSE k \in hits : \A j \in hits : k <= j
             IN  [some |-> TRUE, index |-> i - 1, days |-> TIME_TRIANGLE[i]]

\* days_this_year: 366 when the calendar year the day lies in, by the
\* cycle counts, is a leap year.
FromDays_days_this_year(years, num_4y_cycles, num_100y_cycles) ==
    IF years = 0 /\ ~(num_4y_cycles = 0 /\ num_100y_cycles # 0)
    THEN 366 ELSE 365

\* day_of_year, wrapped around for January and February.
FromDays_day_of_year(remainder, days_this_year) ==
    IF remainder + days_this_year - 306 >= days_this_year
    THEN remainder + days_this_year - 306 - days_this_year
    ELSE remainder + days_this_year - 306

\* The match on the result of the scan: (month, month_days).
FromDays_month(result, remainder) ==
    IF result.some
    THEN << 11 - result.index, remainder - result.days >>
    ELSE << 0, remainder >>

\* month += 2, the wrap around for January and February and the assembly of
\* the Date; `years` counts from 2000, `md` is (month, month_days).
FromDays_date(days, years, day_of_year, md) ==
    [ yearday |-> AsI16(day_of_year + 1),
      weekday |-> days_to_weekday(days),
      ymd     |-> YMD((IF md[1] + 2 >= 12 THEN years + 1 ELSE years) + 2000,
                      Month_from_zero(AsI8(IF md[1] + 2 >= 12
                                           THEN md[1] + 2 - 12
                                           ELSE md[1] + 2)),
                      AsI8(md[2] + 1)) ]

\* After `years = remainder / 365; remainder -= years * 365`.
FromDays_in_year(days, num_400y_cycles, num_100y_cycles, num_4y_cycles, years, remainder) ==
    FromDays_date(
        days,
        years + 4 * num_4y_cycles + 100 * num_100y_cycles
              + 400 * num_400y_cycles,
        FromDays_day_of_year(
            remainder,
            FromDays_days_this_year(years, num_4y_cycles, num_100y_cycles)),
        FromDays_month(TriangleFind(remainder), remainder))

\* After `num_4y_cycles = remainder / DAYS_IN_4Y;
\* remainder -= num_4y_cycles * DAYS_IN_4Y`.
FromDays_in_4y(days, num_400y_cycles, num_100y_cycles, num_4y_cycles, remainder) ==
    FromDays_in_year(days, num_400y_cycles, num_100y_cycles, num_4y_cycles,
                     RustDiv(remainder, 365),
                     remainder - RustDiv(remainder, 365) * 365)

\* After `num_100y_cycles = remainder / DAYS_IN_100Y;
\* remainder -= num_100y_cycles * DAYS_IN_100Y`.
FromDays_in_100y(days, num_400y_cycles, num_100y_cycles, remainder) ==
    FromDays_in_4y(days, num_400y_cycles, num_100y_cycles,
                   RustDiv(remainder, DAYS_IN_4Y),
                   remainder - RustDiv(remainder, DAYS_IN_4Y) * DAYS_IN_4Y)

\* After `(num_400y_cycles, remainder) = split_cycles(days, DAYS_IN_400Y)`.
FromDays_in_400y(days, num_400y_cycles, remainder) ==
    FromDays_in_100y(days, num_400y_cycles,
                     RustDiv(remainder, DAYS_IN_100Y),
                     remainder - RustDiv(remainder, DAYS_IN_100Y) * DAYS_IN_100Y)

Date_from_days_since_epoch(days) ==
    FromDays_in_400y(days,
                     split_cycles(days, DAYS_IN_400Y)[1],
                     split_cycles(days, DAYS_IN_400Y)[2])

\* .map(|days| Date::from_days_since_epoch(days - EPOCH_DIFFERENCE))
Date_ymd_map(r) ==
    IF r.ok
    THEN Ok(Date_from_days_since_epoch(r.val - EPOCH_DIFFERENCE))
    ELSE r

Date_ymd(year, month, day) ==
    Date_ymd_map(YMD_to_days_since_epoch(YMD(year, month, day)))

\* let days = try!(jan_1.to_days_since_epoch()); Ok(...)
Date_yd_try(r, yearday) ==
    IF r.ok
    THEN Ok(Date_from_days_since_epoch(r.val + yearday - 1 - EPOCH_DIFFERENCE))
    ELSE r

Date_yd(year, yearday) ==
    IF is_within(yearday, 0, 367)
    THEN Date_yd_try(YMD_to_days_since_epoch(YMD(year, "January", 1)), yearday)
    ELSE Err(OutOfRange)

\* The choice of the year the day of `yearday` lies in.
Date_ywd_year(year, yearday) ==
    IF yearday <= 0
    THEN Date_yd(year - 1,
                 (IF Year_is_leap_year(year - 1) THEN 366 ELSE 365) + yearday)
    ELSE IF yearday >= (IF Year_is_leap_year(year) THEN 366 ELSE 365)
         THEN Date_yd(year + 1,
                      yearday - (IF Year_is_leap_year(year) THEN 366 ELSE 365))
         ELSE Date_yd(year, yearday)

\* jan_4.to_days_since_epoch().unwrap()
Date_ywd_jan_4(year) == YMD_to_days_since_epoch(YMD(year, "January", 4)).val

Date_ywd(year, week, weekday) ==
    Date_ywd_year(
        year,
        7 * week + Weekday_days_from_monday_as_one(weekday)
        - (Weekday_days_from_monday_as_one(
               days_to_weekday(Date_ywd_jan_4(year) - EPOCH_DIFFERENCE)) + 3))

\* The unwraps.  A Date whose month or weekday is None is one that
\* `Month::from_zero(month as i8).unwrap()` in from_days_since_epoch or
\* `Weekday::from_zero(..).unwrap()` in days_to_weekday never returned.
Date_unwrap_fails(date) == date.ymd.month = None \/ date.weekday = None

\* The same of the Date in a Result, if there is one.
Result_unwrap_fails(r) == r.ok /\ Date_unwrap_fails(r.val)

\* `jan_4.to_days_since_epoch().unwrap()` in ywd, and days_to_weekday of it.
Date_ywd_unwrap_fails(year) ==
    \/ ~YMD_to_days_since_epoch(YMD(year, "January", 4)).ok
    \/ days_to_weekday(Date_ywd_jan_4(year) - EPOCH_DIFFERENCE) = None

Date_new_with_prefilled_values(year, month, day, weekday, yearday) ==
    [ ymd |-> YMD(year, month, day), weekday |-> weekday, yearday |-> yearday ]

\* Date equality as #[derive(PartialEq)] on Date would make it.
Date_eq_derived(self, other) ==
    /\ YMD_eq(self.ymd, other.ymd)
    /\ self.yearday = other.yearday
    /\ self.weekday = other.weekday

Date_eq(self, other) == YMD_eq(self.ymd, other.ymd)

Date_partial_cmp(self, other) == YMD_cmp(self.ymd, other.ymd)

Date_cmp(self, other) == YMD_cmp(self.ymd, other.ymd)

\* `a < b` is partial_cmp(a, b) == Some(Less).
Date_lt(self, other) == Date_partial_cmp(self, other) = "Less"

(***************************************************************************)
(* Time                                                                    *)
(***************************************************************************)
Time(hour, minute, second, millisecond) ==
    [hour |-> hour, minute |-> minute, second |-> second,
     millisecond |-> millisecond]

Time_from_seconds_and_milliseconds_since_midnight(seconds, millisecond_of_second) ==
    Time(AsI8(RustDiv(RustDiv(seconds, 60), 60)),
         AsI8(RustRem(RustDiv(seconds, 60), 60)),
         AsI8(RustRem(seconds, 60)),
         millisecond_of_second)

Time_hm(hour, minute) ==
    IF (is_within(hour, 0, 24) /\ is_within(minute, 0, 60))
       \/ (hour = 24 /\ minute = 0)
    THEN Ok(Time(hour, minute, 0, 0))
    ELSE Err(OutOfRange)

Time_hms(hour, minute, second) ==
    IF (is_within(hour, 0, 24) /\ is_within(minute, 0, 60)
        /\ is_within(second, 0, 60))
       \/ (hour = 24 /\ minute = 0 /\ second = 0)
    THEN Ok(Time(hour, minute, second, 0))
    ELSE Err(OutOfRange)

\* Time_hms_ms with the 24:00:00 sentinel of hm and hms.
Time_hms_ms_sentinel(hour, minute, second, millisecond) ==
    IF (is_within(hour, 0, 24) /\ is_within(minute, 0, 60)
        /\ is_within(second, 0, 60) /\ is_within(millisecond, 0, 1000))
       \/ (hour = 24 /\ minute = 0 /\ second = 0 /\ millisecond = 0)
    THEN Ok(Time(hour, minute, second, millisecond))
    ELSE Err(OutOfRange)

Time_hms_ms(hour, minute, second, millisecond) ==
    IF is_within(hour, 0, 24) /\ is_within(minute, 0, 60)
       /\ is_within(second, 0, 60) /\ is_within(millisecond, 0, 1000)
    THEN Ok(Time(hour, minute, second, millisecond))
    ELSE Err(OutOfRange)

Time_to_seconds(self) == self.hour * 3600 + self.minute * 60 + self.second

(***************************************************************************)
(* DateTime                                                                *)
(***************************************************************************)
\* DateTime { date: ..., time: ... } of the (days, secs) split.
DateTime_at_split(split, millisecond_of_second) ==
    [ date |-> Date_from_days_since_epoch(split[1]),
      time |-> Time_from_seconds_and_milliseconds_since_midnight(
                   split[2], millisecond_of_second) ]

DateTime_at_ms(seconds_since_1970_epoch, millisecond_of_second) ==
    DateTime_at_split(
        split_cycles(seconds_since_1970_epoch
                     - EPOCH_DIFFERENCE * SECONDS_IN_DAY, SECONDS_IN_DAY),
        millisecond_of_second)

DateTime_from_instant(instant) ==
    DateTime_at_ms(instant.seconds, instant.milliseconds)

\* `self.date.ymd.to_days_since_epoch().unwrap()` in to_instant.
DateTime_to_instant_unwrap_fails(self) ==
    ~YMD_to_days_since_epoch(self.date.ymd).ok

\* to_instant that leaves the millisecond out of the Instant.
DateTime_to_instant_seconds(self) ==
    Instant_at_ms(YMD_to_days_since_epoch(self.date.ymd).val * SECONDS_IN_DAY
                  + Time_to_seconds(self.time),
                  0)

DateTime_to_instant(self) ==
    Instant_at_ms(YMD_to_days_since_epoch(self.date.ymd).val * SECONDS_IN_DAY
                  + Time_to_seconds(self.time),
                  self.time.millisecond)

DateTime_new(date, time) == [ date |-> date, time |-> time ]

DateTime_add_seconds(self, seconds) ==
    DateTime_from_instant(
        Instant_add(DateTime_to_instant(self), Duration_of(seconds)))

DateTime_add(self, duration) ==
    DateTime_from_instant(Instant_add(DateTime_to_instant(self), duration))

DateTime_sub(self, duration) ==
    DateTime_from_instant(Instant_sub(DateTime_to_instant(self), duration))

\* #[derive(PartialEq)] on DateTime: == of the Dates and of the Times.
DateTime_eq(self, other) ==
    Date_eq(self.date, other.date) /\ self.time = other.time

(***************************************************************************)
(* Input sets of the operations.                                           *)
(***************************************************************************)
EdgeYears == { -400, -1, 0, 1, 4, 100, 1600, 1601, 1602, 1900, 2100, 2400 }

Years == ((2000 - YearSpan)..(2000 + YearSpan)) \cup EdgeYears

Days == (-1..MaxDay) \cup { -128, 127 }

EdgeOffsets ==
    { c + k : c \in { DAYS_IN_100Y, 0 - DAYS_IN_100Y, DAYS_IN_400Y,
                      0 - DAYS_IN_400Y, 2 * DAYS_IN_400Y,
                      0 - EPOCH_DIFFERENCE },
              k \in -2..2 }

DayOffsets == (-DaySpan..DaySpan) \cup EdgeOffsets

Yeardays == -1..MaxYearday

Weeks == -1..MaxWeek

Hours == -1..MaxHour

Minutes == { -1, 0, 1, 30, 59, 60 }

Seconds == { -1, 0, 1, 30, 59, 60 }

Milliseconds == { -1, 0, 1, 999, 1000 }

SecondsOfDay == { 0, 1, 59, 60, 3599, 3600, 43200, 86399 }

\* Days since 1 January 1970 around 1970, 1 March 2000 and 29 February 2004.
AtDays ==
    { c + k : c \in { 0, EPOCH_DIFFERENCE, EPOCH_DIFFERENCE + DAYS_IN_4Y },
              k \in -AtDaySpan..AtDaySpan }

AtSeconds == { d * SECONDS_IN_DAY + t : d \in AtDays, t \in SecondsOfDay }

AtMilliseconds == { 0, 1, 999 }

\* Numbers of periods and cycle lengths of split_cycles: small ones and
\* the ones of the callers (years in 400, days in DAYS_IN_400Y, seconds in
\* SECONDS_IN_DAY).
Periods ==
    (-MaxPeriods..MaxPeriods)
    \cup { c + k : c \in { 0 - DAYS_IN_400Y, DAYS_IN_400Y,
                           0 - SECONDS_IN_DAY, SECONDS_IN_DAY,
                           0 - 2 * SECONDS_IN_DAY },
                   k \in -1..1 }

CycleLengths == (1..MaxCycleLength) \cup { 400, DAYS_IN_400Y, SECONDS_IN_DAY }

\* Seconds since 1970 at the start and the end of the days around
\* 29 February 2004 and around 1 January 2004, and spans to add.
ArithDays ==
    { EPOCH_DIFFERENCE + DAYS_IN_4Y - 1 + k : k \in -ArithDaySpan..ArithDaySpan }
    \cup { EPOCH_DIFFERENCE + 3 * 365 + 306 - 1 }

ArithSeconds == { d * SECONDS_IN_DAY + t : d \in ArithDays, t \in { 0, 86399 } }

ArithSpans == { 1, SECONDS_IN_DAY, 366 * SECONDS_IN_DAY }

\* The Dates and Times DateTime::new is given: Date::ymd of the days around
\* 1 January and 29 February 2004, and Time::hm, hms and hms_ms of the
\* first and last hour, minute, second and millisecond and of 24:00:00.
NewDates ==
    { << 2003, "December", 31 >>, << 2004, "January", 1 >>,
      << 2004, "February", 28 >>, << 2004, "February", 29 >>,
      << 2004, "March", 1 >> }

NewTimes ==
    [kind : {"hm"}, hour : {0, 23, 24}, minute : {0, 59},
     second : {0}, millisecond : {0}]
    \cup [kind : {"hms"}, hour : {23, 24}, minute : {0, 59},
          second : {0, 59}, millisecond : {0}]
    \cup [kind : {"hms_ms"}, hour : {0, 23}, minute : {0},
          second : {0}, millisecond : {0, 999}]

MakeDate(ymd) == Date_ymd(ymd[1], ymd[2], ymd[3])

MakeTime(src) ==
    CASE src.kind = "hm"  -> Time_hm(src.hour, src.minute)
      [] src.kind = "hms" -> Time_hms(src.hour, src.minute, src.second)
      [] OTHER -> Time_hms_ms(src.hour, src.minute, src.second,
                              src.millisecond)

\* The pairs of a Date and a Time that the constructors return.
NewSources ==
    { src \in [date : NewDates, time : NewTimes] :
          MakeDate(src.date).ok /\ MakeTime(src.time).ok }

MakeDateTime(src) ==
    DateTime_new(MakeDate(src.date).val, MakeTime(src.time).val)

CmpYears == { 2000, 2004 }

CmpMonths == { "January", "February", "March", "December" }

CmpDays == { 1, 29, 31 }

\* The ways a Date of a comparison is made: by the validated constructor or
\* by _new_with_prefilled_values with any weekday and yearday.
CmpSources ==
    { [kind |-> "ymd", year |-> y, month |-> m, day |-> d] :
          y \in CmpYears, m \in CmpMonths, d \in CmpDays }
    \cup
    { [kind |-> "prefilled", year |-> y, month |-> m, day |-> d,
       weekday |-> w, yearday |-> n] :
          y \in CmpYears, m \in CmpMonths, d \in CmpDays,
          w \in {"Monday", "Sunday"}, n \in {1, 60} }

Make(src) ==
    IF src.kind = "ymd"
    THEN Date_ymd(src.year, src.month, src.day)
    ELSE Ok(Date_new_with_prefilled_values(src.year, src.month, src.day,
                                           src.weekday, src.yearday))

(***************************************************************************)
(* The calls: the function called and its arguments.                       *)
(***************************************************************************)
YmdCalls == [fn : {"ymd"}, year : Years, month : MonthSet, day : Days]

YdCalls == [fn : {"yd"}, year : Years, yearday : Yeardays]

YwdCalls == [fn : {"ywd"}, year : Years, week : Weeks, weekday : WeekdaySet]

FromDaysCalls == [fn : {"from_days_since_epoch"}, days : DayOffsets]

\* The sources that make a Date: the prefilled ones and the valid triples.
CmpMade == { src \in CmpSources : Make(src).ok }

CompareCalls == [fn : {"compare"}, a : CmpMade, b : CmpMade]

HmCalls == [fn : {"hm"}, hour : Hours, minute : Minutes]

HmsCalls == [fn : {"hms"}, hour : Hours, minute : Minutes, second : Seconds]

HmsMsCalls ==
    [fn : {"hms_ms"}, hour : Hours, minute : Minutes, second : Seconds,
     millisecond : Milliseconds]

AtMsCalls == [fn : {"at_ms"}, seconds : AtSeconds, millisecond : AtMilliseconds]

SplitCyclesCalls ==
    [fn : {"split_cycles"}, number_of_periods : Periods,
     cycle_length : CycleLengths]

ArithmeticCalls ==
    [fn : {"arithmetic"}, seconds : ArithSeconds, millisecond : {0, 999}]

NewCalls == [fn : {"new"}, a : NewSources, b : NewSources]

Calls ==
    YmdCalls \cup YdCalls \cup YwdCalls \cup FromDaysCalls \cup CompareCalls
    \cup HmCalls \cup HmsCalls \cup HmsMsCalls \cup AtMsCalls
    \cup SplitCyclesCalls \cup ArithmeticCalls \cup NewCalls

(***************************************************************************)
(* The operations.  A behaviour is one call: the values of the library are *)
(* immutable, so a call starts with its arguments only and ends with what  *)
(* the function returns.                                                   *)
(***************************************************************************)
Init ==
    /\ pc = "call"
    /\ args \in Calls
    /\ res = << >>

Calling(f) == pc = "call" /\ args.fn = f

Returned(f) == pc = "done" /\ args.fn = f

Return(v) ==
    /\ pc' = "done"
    /\ res' = v
    /\ UNCHANGED args

\* A call ends by a panic where an unwrap fails, and returns otherwise.
Panic ==
    /\ pc' = "panic"
    /\ res' = << >>
    /\ UNCHANGED args

ymd ==
    /\ Calling("ymd")
    /\ IF Result_unwrap_fails(Date_ymd(args.year, args.month, args.day))
       THEN Panic
       ELSE Return(Date_ymd(args.year, args.month, args.day))

yd ==
    /\ Calling("yd")
    /\ IF Result_unwrap_fails(Date_yd(args.year, args.yearday))
       THEN Panic
       ELSE Return(Date_yd(args.year, args.yearday))

ywd ==
    /\ Calling("ywd")
    /\ IF Date_ywd_unwrap_fails(args.year)
       THEN Panic
       ELSE IF Result_unwrap_fails(
                   Date_ywd(args.year, args.week, args.weekday))
            THEN Panic
            ELSE Return(Date_ywd(args.year, args.week, args.weekday))

from_days_since_epoch ==
    /\ Calling("from_days_since_epoch")
    /\ IF Date_unwrap_fails(Date_from_days_since_epoch(args.days))
       THEN Panic
       ELSE Return(Date_from_days_since_epoch(args.days))

\* The two Dates and what ==, < and cmp say of them.
Comparison(a, b) ==
    [a   |-> a,
     b   |-> b,
     eq  |-> Date_eq(a, b),
     lt  |-> Date_lt(a, b),
     cmp |-> Date_cmp(a, b)]

compare ==
    /\ Calling("compare")
    /\ Return(Comparison(Make(args.a).val, Make(args.b).val))

hm ==
    /\ Calling("hm")
    /\ Return(Time_hm(args.hour, args.minute))

hms ==
    /\ Calling("hms")
    /\ Return(Time_hms(args.hour, args.minute, args.second))

hms_ms ==
    /\ Calling("hms_ms")
    /\ Return(Time_hms_ms(args.hour, args.minute, args.second,
                          args.millisecond))

\* A DateTime and the Instant to_instant gives for it.
WithInstant(dt) == [dt |-> dt, instant |-> DateTime_to_instant(dt)]

\* to_instant of a DateTime does not come about if the DateTime did not.
DateTime_unwrap_fails(dt) ==
    Date_unwrap_fails(dt.date) \/ DateTime_to_instant_unwrap_fails(dt)

at_ms ==
    /\ Calling("at_ms")
    /\ IF DateTime_unwrap_fails(
              DateTime_at_ms(args.seconds, args.millisecond))
       THEN Panic
       ELSE Return(WithInstant(
                DateTime_at_ms(args.seconds, args.millisecond)))

split ==
    /\ Calling("split_cycles")
    /\ Return(split_cycles(args.number_of_periods, args.cycle_length))

\* A chain of DateTime arithmetic: the DateTime at hand and the net totals
\* of seconds after each step, from DateTime::at_ms(seconds, millisecond).
Chain(dt, totals) == [dt |-> dt, totals |-> totals]

Total == res.totals[Len(res.totals)]

Stepping == pc = "run" /\ Len(res.totals) <= MaxSteps

Step(dt, total) ==
    IF Date_unwrap_fails(dt.date)
    THEN Panic
    ELSE /\ pc' = "run"
         /\ res' = Chain(dt, Append(res.totals, total))
         /\ UNCHANGED args

start ==
    /\ Calling("arithmetic")
    /\ IF DateTime_unwrap_fails(
              DateTime_at_ms(args.seconds, args.millisecond))
       THEN Panic
       ELSE /\ pc' = "run"
            /\ res' = Chain(DateTime_at_ms(args.seconds, args.millisecond),
                            << 0 >>)
            /\ UNCHANGED args

add_seconds ==
    /\ Stepping
    /\ \E seconds \in ArithSpans :
           IF DateTime_to_instant_unwrap_fails(res.dt)
           THEN Panic
           ELSE Step(DateTime_add_seconds(res.dt, seconds), Total + seconds)

add ==
    /\ Stepping
    /\ \E seconds \in ArithSpans :
           IF DateTime_to_instant_unwrap_fails(res.dt)
           THEN Panic
           ELSE Step(DateTime_add(res.dt, Duration_of(seconds)),
                     Total + seconds)

sub ==
    /\ Stepping
    /\ \E seconds \in ArithSpans :
           IF DateTime_to_instant_unwrap_fails(res.dt)
           THEN Panic
           ELSE Step(DateTime_sub(res.dt, Duration_of(seconds)),
                     Total - seconds)

\* Two DateTimes, their Instants, and the first one back from its Instant.
WithInstants(a, b) ==
    [a |-> a,
     b |-> b,
     instant_a |-> DateTime_to_instant(a),
     instant_b |-> DateTime_to_instant(b),
     back |-> DateTime_from_instant(DateTime_to_instant(a))]

new ==
    /\ Calling("new")
    /\ IF \/ DateTime_unwrap_fails(MakeDateTime(args.a))
          \/ DateTime_unwrap_fails(MakeDateTime(args.b))
       THEN Panic
       ELSE Return(WithInstants(MakeDateTime(args.a), MakeDateTime(args.b)))

Next ==
    \/ ymd
    \/ yd
    \/ ywd
    \/ from_days_since_epoch
    \/ compare
    \/ hm
    \/ hms
    \/ hms_ms
    \/ at_ms
    \/ split
    \/ start
    \/ add_seconds
    \/ add
    \/ sub
    \/ new

Spec == Init /\ [][Next]_vars

(***************************************************************************)
(* The proleptic Gregorian calendar, as the reference the results are      *)
(* compared with: the leap-year rule, the day number of a calendar day     *)
(* (days since 1 January 1970) and its inverse, the weekday of a day       *)
(* number and the number of ISO weeks of a year.                           *)
(***************************************************************************)
IsGregorianLeap(y) == y % 4 = 0 /\ (y % 100 # 0 \/ y % 400 = 0)

RefDayNumber(y, m, d) ==
    LET yp  == IF m <= 2 THEN y - 1 ELSE y
        era == yp \div 400
        yoe == yp - era * 400
        doy == ((153 * (IF m > 2 THEN m - 3 ELSE m + 9) + 2) \div 5) + d - 1
        doe == yoe * 365 + (yoe \div 4) - (yoe \div 100) + doy
    IN  era * 146097 + doe - 719468

RefCivil(n) ==
    LET z   == n + 719468
        era == z \div 146097
        doe == z - era * 146097
        yoe == (doe - (doe \div 1460) + (doe \div 36524) - (doe \div 146096))
               \div 365
        doy == doe - (365 * yoe + (yoe \div 4) - (yoe \div 100))
        mp  == (5 * doy + 2) \div 153
        d   == doy - ((153 * mp + 2) \div 5) + 1
        m   == IF mp < 10 THEN mp + 3 ELSE mp - 9
    IN  [year |-> yoe + era * 400 + (IF m <= 2 THEN 1 ELSE 0),
         month |-> Months[m], day |-> d]

RefWeekday(n) == Weekdays[((n + 4) % 7) + 1]

RefWeeksInYear(y) ==
    LET jan_1 == RefWeekday(RefDayNumber(y, 1, 1))
    IN  IF jan_1 = "Thursday" \/ (IsGregorianLeap(y) /\ jan_1 = "Wednesday")
        THEN 53 ELSE 52

\* Day number of the Monday of the week that contains 4 January of y.
RefWeekOneMonday(y) ==
    LET jan_4 == RefDayNumber(y, 1, 4)
    IN  jan_4 - (Weekday_days_from_monday_as_one(RefWeekday(jan_4)) - 1)

\* Position of a calendar triple in chronological order.
ChronoKey(t) == ((t.year * 12) + MonthNumber(t.month) - 1) * 256 + t.day + 128

(***************************************************************************)
(* The claims.                                                             *)
(***************************************************************************)

\* C1: for every valid (y, m, d), 29 February of leap years included,
\* Date::ymd(y, m, d) is Ok(date) with date.year() = y, date.month() = m and
\* date.day() = d.
C1_YmdKeepsFields ==
    (/\ Returned("ymd")
     /\ args.day >= 1
     /\ args.day <= Month_days_in_month(args.month, IsGregorianLeap(args.year)))
    => (/\ res.ok
        /\ res.val.ymd.year = args.year
        /\ res.val.ymd.month = args.month
        /\ res.val.ymd.day = args.day)

\* C2: for every day offset d, re-encoding the (year, month, day) of
\* Date::from_days_since_epoch(d) with YMD::to_days_since_epoch and
\* subtracting EPOCH_DIFFERENCE gives d again.
C2_DecodeEncodeInverse ==
    Returned("from_days_since_epoch")
    => LET r == YMD_to_days_since_epoch(res.ymd)
       IN  r.ok /\ r.val - EPOCH_DIFFERENCE = args.days

C4_YmdErrIffDayOutOfMonth ==
    Returned("ymd")
    => ((~res.ok /\ res.err = OutOfRange)
        <=> (\/ args.day < 1
             \/ args.day > Month_days_in_month(args.month,
                                               IsGregorianLeap(args.year))))

C4_Witness ==
    /\ Returned("ymd")
    /\ args.year = 2100 /\ args.month = "February" /\ args.day = 29
    /\ ~res.ok

\* C5: for every s and every ms in [0, 1000), DateTime::at_ms(s, ms)
\* .to_instant() is the Instant with seconds = s and milliseconds = ms.
C5_ToInstantInvertsAtMs ==
    Returned("at_ms")
    => res.instant = Instant_at_ms(args.seconds, args.millisecond)

\* C6: a < b iff a's (year, month, day) is chronologically earlier than
\* b's, and a == b iff the triples are equal, whatever yearday and weekday
\* hold; for Dates of the validated constructor the order is that of their
\* day offsets (the offset of a Date being YMD::to_days_since_epoch of its
\* triple).
C6_DateOrderIsYmdOrder ==
    Returned("compare")
    => /\ res.lt <=> ChronoKey(res.a.ymd) < ChronoKey(res.b.ymd)
       /\ res.eq <=> res.a.ymd = res.b.ymd
       /\ (res.cmp = "Equal") <=> res.eq
       /\ (args.a.kind = "ymd" /\ args.b.kind = "ymd")
          => (res.lt <=> YMD_to_days_since_epoch(res.a.ymd).val
                         < YMD_to_days_since_epoch(res.b.ymd).val)

C6_Witness ==
    /\ Returned("compare")
    /\ args.a.kind = "prefilled"
    /\ args.b.kind = "ymd"
    /\ res.eq
    /\ res.a.yearday # res.b.yearday
    /\ res.a.weekday # res.b.weekday

\* C7: for every year y, every ISO week w of y and every weekday wd,
\* Date::ywd(y, w, wd) is Ok(date), date being the calendar day
\* 7*(w-1) + (ordinal(wd)-1) days after the Monday of the week that
\* contains 4 January of y, with date.weekday() = wd.
C7_YwdIsIsoWeekDate ==
    (Returned("ywd") /\ args.week >= 1 /\ args.week <= RefWeeksInYear(args.year))
    => (/\ res.ok
        /\ res.val.ymd =
               RefCivil(RefWeekOneMonday(args.year) + 7 * (args.week - 1)
                        + Weekday_days_from_monday_as_one(args.weekday) - 1)
        /\ res.val.weekday = args.weekday)

\* C8: Date::ywd(y, w, wd) is Err(OutOfRange) whenever w < 1 or w is
\* greater than the number of ISO weeks of year y.
C8_YwdRejectsBadWeek ==
    (Returned("ywd") /\ (args.week < 1 \/ args.week > RefWeeksInYear(args.year)))
    => (~res.ok /\ res.err = OutOfRange)

\* C9: Date::yd(y, n) is Err(OutOfRange) exactly when n is outside [0, 367);
\* otherwise it is Ok(date), date being the calendar day (n - 1) days after
\* 1 January of y.
C9_YdIsOrdinalDay ==
    Returned("yd")
    => IF args.yearday >= 0 /\ args.yearday < 367
       THEN /\ res.ok
            /\ res.val.ymd =
                   RefCivil(RefDayNumber(args.year, 1, 1) + args.yearday - 1)
       ELSE ~res.ok /\ res.err = OutOfRange

\* C10: Time::hm and Time::hms are Ok exactly for 0 <= h < 24, 0 <= m < 60,
\* 0 <= s < 60 or for 24:00:00; Time::hms_ms is Ok exactly for 0 <= h < 24,
\* 0 <= m < 60, 0 <= s < 60, 0 <= ms < 1000, so never for h = 24; an Ok
\* result carries the given fields and 0 in the others, and the other
\* outcome is Err(OutOfRange).
C10_TimeConstructors ==
    LET InDay(h, m, s) == h \in 0..23 /\ m \in 0..59 /\ s \in 0..59
        Sentinel(h, m, s) == h = 24 /\ m = 0 /\ s = 0
        Outcome(good, t) ==
            IF good THEN res.ok /\ res.val = t
                    ELSE ~res.ok /\ res.err = OutOfRange
    IN  /\ Returned("hm")
           => Outcome(InDay(args.hour, args.minute, 0)
                      \/ Sentinel(args.hour, args.minute, 0),
                      Time(args.hour, args.minute, 0, 0))
        /\ Returned("hms")
           => Outcome(InDay(args.hour, args.minute, args.second)
                      \/ Sentinel(args.hour, args.minute, args.second),
                      Time(args.hour, args.minute, args.second, 0))
        /\ Returned("hms_ms")
           => Outcome(InDay(args.hour, args.minute, args.second)
                      /\ args.millisecond \in 0..999,
                      Time(args.hour, args.minute, args.second,
                           args.millisecond))

C10_Witness ==
    /\ Returned("hms_ms")
    /\ args.hour = 24 /\ args.minute = 0 /\ args.second = 0
    /\ args.millisecond = 0
    /\ ~res.ok

\* C11: for all integers n and every positive len, split_cycles(n, len)
\* returns (c, r) with 0 <= r < len and c * len + r = n: floor division and
\* a non-negative remainder, not truncating division.
C11_SplitCyclesIsFloorDivision ==
    Returned("split_cycles")
    => /\ res[2] >= 0
       /\ res[2] < args.cycle_length
       /\ res[1] * args.cycle_length + res[2] = args.number_of_periods
       /\ res[1] = args.number_of_periods \div args.cycle_length
       /\ res[2] = args.number_of_periods % args.cycle_length

\* A negative number that is no multiple of the length: truncation gives
\* (-2, -1), the function gives (-3, 2).
C11_Witness ==
    /\ Returned("split_cycles")
    /\ args.number_of_periods = -7
    /\ args.cycle_length = 3
    /\ res = << -3, 2 >>

RefOrdinal(t) ==
    RefDayNumber(t.year, MonthNumber(t.month), t.day)
    - RefDayNumber(t.year, 1, 1) + 1

\* The day is one of its month and the yearday is the day's ordinal.
ValidDate(date) ==
    /\ date.ymd.day >= 1
    /\ date.ymd.day
           <= Month_days_in_month(date.ymd.month,
                                  IsGregorianLeap(date.ymd.year))
    /\ date.yearday = RefOrdinal(date.ymd)

\* C13: every Date that ymd, yd, ywd or at_ms produces has
\* 1 <= day <= days_in_month(month, year) and a yearday equal to the 1-based
\* ordinal of (year, month, day) in its year (so that equal Dates have equal
\* yearday).
C13_DatesAreValidWithOrdinalYearday ==
    /\ \A f \in { "ymd", "yd", "ywd" } :
           Returned(f) /\ res.ok => ValidDate(res.val)
    /\ Returned("from_days_since_epoch") => ValidDate(res)
    /\ Returned("at_ms") => ValidDate(res.dt.date)

\* The weekday after a weekday, Sunday after Saturday.
NextWeekday(w) ==
    Weekday_from_zero((Weekday_days_from_monday_as_one(w) + 1) % 7)

\* C14: the weekday of from_days_since_epoch(d) is the one of index
\* (d + 3) mod 7, the result wrapped into 0..6, for every d, negative ones
\* included: Wednesday at d = 0, and the weekday of d + 1 is the cyclic
\* successor of the weekday of d.
C14_WeekdayOfOffset ==
    Returned("from_days_since_epoch")
    => /\ res.weekday = Weekday_from_zero((args.days + 3) % 7)
       /\ res.weekday = RefWeekday(args.days + EPOCH_DIFFERENCE)
       /\ args.days = 0 => res.weekday = "Wednesday"
       /\ Date_from_days_since_epoch(args.days + 1).weekday
              = NextWeekday(res.weekday)

\* A negative offset whose truncated remainder is negative: 3 days and a
\* week before 1 March 2000 is a Sunday, and Monday follows.
C14_Witness ==
    /\ Returned("from_days_since_epoch")
    /\ args.days = -10
    /\ RustRem(args.days + 3, 7) = 0
    /\ res.weekday = "Sunday"
    /\ Date_from_days_since_epoch(args.days + 1).weekday = "Monday"

\* C15: DateTime arithmetic is linear in the Instant: from
\* dt = DateTime::at_ms(s, ms), after any sequence of add_seconds, + Duration
\* and - Duration steps of net total t seconds the DateTime r has
\* r.to_instant() = Instant(s + t, ms) and r = DateTime::at_ms(s + t, ms);
\* so (dt + d) - d = dt, also through 29 February and over month and year
\* boundaries.
C15_ArithmeticIsLinear ==
    pc = "run"
    => /\ DateTime_to_instant(res.dt)
              = Instant_at_ms(args.seconds + Total, args.millisecond)
       /\ DateTime_eq(res.dt,
                      DateTime_at_ms(args.seconds + Total, args.millisecond))

\* C16, as stated: DateTime and Instant map one-to-one: two DateTimes that
\* DateTime::new makes of Dates from Date::ymd and Times from Time::hm, hms
\* and hms_ms, the 24:00:00 sentinel included, are equal if their
\* to_instant() are equal, and from_instant(dt.to_instant()) = dt.
C16_OneToOne ==
    Returned("new")
    => /\ res.instant_a = res.instant_b => DateTime_eq(res.a, res.b)
       /\ DateTime_eq(res.back, res.a)

\* C16, amended: the same of the DateTimes whose Time has hour < 24, that
\* is, without the 24:00:00 sentinel, which stands for 00:00:00 of the
\* next day and has its Instant.
C16_OneToOneBelow24 ==
    Returned("new")
    => /\ res.a.time.hour < 24 /\ res.b.time.hour < 24
          /\ res.instant_a = res.instant_b
          => DateTime_eq(res.a, res.b)
       /\ res.a.time.hour < 24 => DateTime_eq(res.back, res.a)

\* Two DateTimes with one Instant, their Times from different constructors
\* (hms_ms and hms, 23:00:00), and the first back from its Instant.
C16_Witness ==
    /\ Returned("new")
    /\ args.a.time.kind = "hms_ms"
    /\ args.b.time.kind = "hms"
    /\ args.a.date = << 2004, "February", 28 >>
    /\ args.b.date = args.a.date
    /\ res.a.time = Time(23, 0, 0, 0)
    /\ res.instant_a = res.instant_b
    /\ DateTime_eq(res.a, res.b)
    /\ DateTime_eq(res.back, res.a)

====
